---- MODULE Spec2Model ----
(***************************************************************************)
(* Model of BrokerApplicationsListController                               *)
(* (backend/src/api/brokers/applications/list-applications/                *)
(*  list-applications.controller.ts): the GET list-applications handler    *)
(* `find` and the POST create-applications handler `post`, running against *)
(* the applications table.                                                 *)
(*                                                                         *)
(* `find` has one await (findAll); everything before it is local, so the   *)
(* handler is one action taken at the moment the query runs.  `post` has   *)
(* two awaits (getAverageLoanAmount, create); each request is a process    *)
(* that steps from one await to the next, so concurrent submits interleave *)
(* exactly at those points.                                                *)
(***************************************************************************)
EXTENDS Integers, FiniteSets, Sequences, TLC

\* ---------------------------------------------------------------- bounds
MaxDate == 2
MaxAmount == 2
MaxSeed == 1
MaxReq == 2

\* ---------------------------------------------------------------- domains
\* An optional value (undefined / null / omitted parameter) is the empty set,
\* a present value v is {v}
Absent == {}
Some(v) == {v}
Opt(S) == {Absent} \cup {Some(v) : v \in S}
Get(o) == CHOOSE v \in o : TRUE

Brokers == {"b1", "b2"}
Dates == 1..MaxDate
Amounts == 0..MaxAmount
Slots == 1..MaxReq

\* ApplicationStatus / TaskStatus enums (the members the handlers and the
\* filters can tell apart)
Submitted == "Submitted"
Approved == "Approved"
ApplicationStatus == {Submitted, Approved}
Pending == "Pending"
Completed == "Completed"
TaskStatus == {Pending, Completed}

\* createdAt given to a record inserted by create(): the current time, which
\* is not before the createdAt of any record already stored
Now == MaxDate

\* A Task row as the join sees it
Tasks == [status : TaskStatus, assignedToBrokerId : Brokers]

\* An Application row with its zero-or-one related Task
ApplicationRows ==
    [brokerId : Brokers, status : ApplicationStatus, loanAmount : Amounts,
     createdAt : Dates, task : Opt(Tasks)]

\* BrokerApplicationsListRequestDto: every parameter is optional; status is
\* an array of statuses (possibly empty) when given
Queries ==
    [minimumDate : Opt(Dates), maximumDate : Opt(Dates),
     completed : Opt(BOOLEAN), status : Opt(SUBSET ApplicationStatus)]

\* ApplicationDto as it arrives in the request body: the loan amount alone,
\* or with status and brokerId fields of its own as well
Bodies ==
    [loanAmount : Amounts, status : {Absent}, brokerId : {Absent}]
    \cup [loanAmount : Amounts, status : {Some(Approved)},
          brokerId : {Some("b2")}]

VARIABLES
    applications,   \* the applications table: id -> row
    reqs,           \* the create-applications requests, one per slot
    listed          \* the last list-applications request and its outcome

vars == <<applications, reqs, listed>>

Ids == DOMAIN applications

\* ------------------------------------------------------- list-applications
\* createDateFilter(field, minimumDate, maximumDate) of common/query-filters:
\* a range condition on the field, inclusive at both ends, each end present
\* only when its bound is given; it throws when minimumDate is after
\* maximumDate.
createDateFilter(field, minimumDate, maximumDate) ==
    IF minimumDate # Absent /\ maximumDate # Absent
       /\ Get(minimumDate) > Get(maximumDate)
    THEN [threw |-> TRUE, field |-> field, gte |-> Absent, lte |-> Absent]
    ELSE [threw |-> FALSE, field |-> field,
          gte |-> minimumDate, lte |-> maximumDate]

\* `if (query.completed)`: undefined and false are both falsy
Truthy(flag) == flag = Some(TRUE)

relatedData_optional(user, query) ==
    IF Truthy(query.completed)
    THEN [status |-> Completed, assignedToBrokerId |-> user,
          required |-> FALSE]
    ELSE [status |-> Pending, assignedToBrokerId |-> user,
          required |-> FALSE]

\* The include clause on Task.  An include with a where clause is a required
\* (inner) join unless it says required: false.
relatedData(user, query) ==
    IF Truthy(query.completed)
    THEN [status |-> Completed, assignedToBrokerId |-> user,
          required |-> TRUE]
    ELSE [status |-> Pending, assignedToBrokerId |-> user,
          required |-> FALSE]

whereOptions_noStatus(user, query, dateFilter) ==
    [brokerId |-> Some(user), date |-> dateFilter, status |-> Absent]

whereOptions_noBroker(user, query, dateFilter) ==
    [brokerId |-> Absent, date |-> dateFilter,
     status |-> IF query.status # Absent THEN query.status ELSE Absent]

\* The where clause on Application: brokerId, the date filter spread in
\* (its only key is the field it was made for), and status IN query.status
\* when query.status is given (an empty array is given, too).
whereOptions(user, query, dateFilter) ==
    [brokerId |-> Some(user), date |-> dateFilter,
     status |-> IF query.status # Absent THEN query.status ELSE Absent]

\* Does an application row satisfy the where clause
MatchesWhere(row, where) ==
    /\ where.brokerId # Absent => row.brokerId = Get(where.brokerId)
    /\ where.date.gte # Absent => row[where.date.field] >= Get(where.date.gte)
    /\ where.date.lte # Absent => row[where.date.field] <= Get(where.date.lte)
    /\ where.status # Absent => row.status \in Get(where.status)

\* The task the join attaches to a row: the row's task when it satisfies
\* the include's where clause
JoinedTask(row, include) ==
    IF /\ row.task # Absent
       /\ Get(row.task).status = include.status
       /\ Get(row.task).assignedToBrokerId = include.assignedToBrokerId
    THEN row.task
    ELSE Absent

\* Application.findAll({ where, include }): the matching rows, each with its
\* joined task; a required join drops the rows without one.
findAll(table, where, include) ==
    { [id |-> i, brokerId |-> table[i].brokerId, status |-> table[i].status,
       loanAmount |-> table[i].loanAmount,
       createdAt |-> table[i].createdAt,
       task |-> JoinedTask(table[i], include)] :
      i \in { j \in DOMAIN table :
                /\ MatchesWhere(table[j], where)
                /\ include.required
                     => JoinedTask(table[j], include) # Absent } }

BAD_REQUEST == "BAD_REQUEST"
OK == "OK"
INTERNAL_SERVER_ERROR == "INTERNAL_SERVER_ERROR"

\* What a request without a result carries in place of the applications
NoApplications == {}

find_swallow(table, user, query, dbFails) ==
    LET made == createDateFilter("createdAt", query.minimumDate,
                                 query.maximumDate)
        dateFilter == IF made.threw
                      THEN [made EXCEPT !.threw = FALSE]
                      ELSE made
    IN  IF dbFails
        THEN [http |-> INTERNAL_SERVER_ERROR, success |-> FALSE,
              queried |-> TRUE, applications |-> NoApplications]
        ELSE [http |-> OK, success |-> TRUE, queried |-> TRUE,
              applications |->
                  findAll(table, whereOptions(user, query, dateFilter),
                          relatedData(user, query))]

\* The handler find(user, query) run against the table: the response, and
\* whether findAll was called.  dbFails: findAll rejects.
find(table, user, query, dbFails) ==
    LET dateFilter == createDateFilter("createdAt", query.minimumDate,
                                       query.maximumDate)
    IN  IF dateFilter.threw
        THEN [http |-> BAD_REQUEST, success |-> FALSE, queried |-> FALSE,
              applications |-> NoApplications]
        ELSE IF dbFails
        THEN [http |-> INTERNAL_SERVER_ERROR, success |-> FALSE,
              queried |-> TRUE, applications |-> NoApplications]
        ELSE [http |-> OK, success |-> TRUE, queried |-> TRUE,
              applications |->
                  findAll(table, whereOptions(user, query, dateFilter),
                          relatedData(user, query))]

\* ------------------------------------------------------ create-applications
RECURSIVE SumLoanAmount(_)
SumLoanAmount(table) ==
    IF table = <<>> THEN 0
    ELSE table[Len(table)].loanAmount
         + SumLoanAmount(SubSeq(table, 1, Len(table) - 1))

\* A value of avgLoanAmount: the exact quotient sum / count, or undefined
Average(sum, count) == [defined |-> TRUE, sum |-> sum, count |-> count]
Zero == Average(0, 1)
Undefined == [defined |-> FALSE, sum |-> 0, count |-> 1]

\* What the aggregate may yield for an empty table: 0, or undefined
EmptyAverages == {Zero, Undefined}

\* Application.getAverageLoanAmount(): the arithmetic mean of loanAmount over
\* all rows; for an empty table the value chosen for that case.
getAverageLoanAmount(table, ifEmpty) ==
    IF Len(table) = 0 THEN ifEmpty
    ELSE Average(SumLoanAmount(table), Len(table))

\* amount !== avg, amount > avg, amount < avg on numbers; every comparison
\* with undefined is false, and undefined is not strictly equal to a number
StrictEq(amount, avg) == avg.defined /\ amount * avg.count = avg.sum
Greater(amount, avg) == avg.defined /\ amount * avg.count > avg.sum
Less(amount, avg) == avg.defined /\ amount * avg.count < avg.sum

\* const loanAmount = body.loanAmount !== avgLoanAmount ? body.loanAmount : null
loanAmount(body, avgLoanAmount) ==
    IF ~StrictEq(body.loanAmount, avgLoanAmount)
    THEN Some(body.loanAmount)
    ELSE Absent

loanAmountStatus_swapped(body, avgLoanAmount) ==
    IF Greater(body.loanAmount, avgLoanAmount) THEN "below"
    ELSE IF Less(body.loanAmount, avgLoanAmount) THEN "above"
    ELSE "at"

loanAmountStatus_orEqual(body, avgLoanAmount) ==
    IF Greater(body.loanAmount, avgLoanAmount)
       \/ StrictEq(body.loanAmount, avgLoanAmount) THEN "above"
    ELSE IF Less(body.loanAmount, avgLoanAmount) THEN "below"
    ELSE "at"

\* The if / else if / else that sets loanAmountStatus
loanAmountStatus(body, avgLoanAmount) ==
    IF Greater(body.loanAmount, avgLoanAmount) THEN "above"
    ELSE IF Less(body.loanAmount, avgLoanAmount) THEN "below"
    ELSE "at"

\* `Loan amount is ${loanAmountStatus} average`
Message(status) ==
    CASE status = "above" -> "Loan amount is above average"
      [] status = "below" -> "Loan amount is below average"
      [] status = "at" -> "Loan amount is at average"

createValues_bodyLast(user, body) ==
    [brokerId |-> IF body.brokerId # Absent THEN Get(body.brokerId) ELSE user,
     status |-> IF body.status # Absent THEN Get(body.status) ELSE Submitted,
     loanAmount |-> body.loanAmount, createdAt |-> Now, task |-> Absent]

\* { ...body, status: ApplicationStatus.Submitted, brokerId: user.id }: the
\* keys written after the spread replace the body's own
createValues(user, body) ==
    [brokerId |-> user, status |-> Submitted,
     loanAmount |-> body.loanAmount, createdAt |-> Now, task |-> Absent]

\* ------------------------------------------------------------------ state
\* Tables of at most n rows drawn from a set of rows; ids are 1..Len
TablesUpTo(rows, n) == UNION { [1..k -> rows] : k \in 0..n }

\* The rows the list handler can tell apart (it never reads loanAmount)
ListRows == { r \in ApplicationRows : r.loanAmount = 0 }

\* A request slot before its request arrives
NoBody == [loanAmount |-> 0, status |-> Absent, brokerId |-> Absent]
NoRequest ==
    [pc |-> "idle", user |-> "b1", body |-> NoBody, avgLoanAmount |-> Zero,
     readAt |-> 0, loanAmount |-> Absent, created |-> Absent,
     threwAt |-> "nowhere", response |-> Absent]

InitList ==
    /\ applications \in TablesUpTo(ListRows, MaxSeed)
    /\ reqs = [s \in Slots |-> NoRequest]
    /\ listed = Absent

\* GET brokers/applications/list-applications by an authenticated broker.
\* The handler only reads the table, so list requests are independent of
\* each other; a behaviour follows one of them.
Find(user, query, dbFails) ==
    /\ listed' = Some([user |-> user, query |-> query,
                       response |-> find(applications, user, query, dbFails)])
    /\ UNCHANGED <<applications, reqs>>

NextList ==
    /\ listed = Absent
    /\ \E user \in Brokers, query \in Queries, dbFails \in BOOLEAN :
        Find(user, query, dbFails)

SpecList == InitList /\ [][NextList]_vars

\* A new, empty applications table and no request yet
Init ==
    /\ applications = <<>>
    /\ reqs = [s \in Slots |-> NoRequest]
    /\ listed = Absent

\* POST brokers/applications/create-applications arrives; the handler calls
\* getAverageLoanAmount() and awaits it.  Slots fill in order of arrival.
PostBegin(s, user, body) ==
    /\ reqs[s].pc = "idle"
    /\ \A t \in Slots : t < s => reqs[t].pc # "idle"
    /\ reqs' = [reqs EXCEPT ![s] =
                  [NoRequest EXCEPT !.pc = "awaitAverage", !.user = user,
                                    !.body = body]]
    /\ UNCHANGED <<applications, listed>>

PostAverage_afterInsert(s, ifEmpty) ==
    /\ reqs[s].pc = "awaitAverage"
    /\ LET avg == getAverageLoanAmount(
                      Append(applications,
                             createValues(reqs[s].user, reqs[s].body)),
                      ifEmpty)
       IN  reqs' = [reqs EXCEPT ![s].pc = "awaitCreate",
                                ![s].avgLoanAmount = avg,
                                ![s].readAt = Len(applications),
                                ![s].loanAmount = loanAmount(reqs[s].body, avg)]
    /\ UNCHANGED <<applications, listed>>

\* getAverageLoanAmount() resolves: the average of the table as it is now;
\* the handler computes loanAmount, calls create() and awaits it.
PostAverage(s, ifEmpty) ==
    /\ reqs[s].pc = "awaitAverage"
    /\ LET avg == getAverageLoanAmount(applications, ifEmpty)
       IN  reqs' = [reqs EXCEPT ![s].pc = "awaitCreate",
                                ![s].avgLoanAmount = avg,
                                ![s].readAt = Len(applications),
                                ![s].loanAmount = loanAmount(reqs[s].body, avg)]
    /\ UNCHANGED <<applications, listed>>

\* getAverageLoanAmount() rejects: the exception leaves the handler
PostAverageFails(s) ==
    /\ reqs[s].pc = "awaitAverage"
    /\ reqs' = [reqs EXCEPT ![s] =
                  [NoRequest EXCEPT !.pc = "failed",
                                    !.threwAt = "getAverageLoanAmount"]]
    /\ UNCHANGED <<applications, listed>>

\* create() resolves: the row is in the table; the handler classifies the
\* amount and returns the response.
PostCreate(s) ==
    /\ reqs[s].pc = "awaitCreate"
    /\ applications' =
           Append(applications, createValues(reqs[s].user, reqs[s].body))
    /\ reqs' = [reqs EXCEPT
         ![s].pc = "done",
         ![s].created = Some(Len(applications) + 1),
         ![s].response =
             Some([success |-> TRUE, loanAmount |-> reqs[s].loanAmount,
                   message |-> Message(loanAmountStatus(
                                   reqs[s].body, reqs[s].avgLoanAmount))])]
    /\ UNCHANGED listed

PostCreateFails_partial(s) ==
    /\ reqs[s].pc = "awaitCreate"
    /\ applications' =
           Append(applications, createValues(reqs[s].user, reqs[s].body))
    /\ reqs' = [reqs EXCEPT ![s] =
                  [NoRequest EXCEPT !.pc = "failed", !.threwAt = "create"]]
    /\ UNCHANGED listed

\* create() rejects: nothing was stored; the exception leaves the handler
PostCreateFails(s) ==
    /\ reqs[s].pc = "awaitCreate"
    /\ reqs' = [reqs EXCEPT ![s] =
                  [NoRequest EXCEPT !.pc = "failed", !.threwAt = "create"]]
    /\ UNCHANGED <<applications, listed>>

Next ==
    \/ \E s \in Slots, user \in Brokers, body \in Bodies :
           PostBegin(s, user, body)
    \/ \E s \in Slots, ifEmpty \in EmptyAverages : PostAverage(s, ifEmpty)
    \/ \E s \in Slots : PostAverageFails(s)
    \/ \E s \in Slots : PostCreate(s)
    \/ \E s \in Slots : PostCreateFails(s)

Spec == Init /\ [][Next]_vars

\* ------------------------------------------------ properties of the list
\* The list request of the behaviour, once it has been served
Listed == listed # Absent
Actor == Get(listed).user
Query == Get(listed).query
Response == Get(listed).response
ReturnedIds == { r.id : r \in Response.applications }

\* The three filters as the request states them, row by row
OwnedByActor(i) == applications[i].brokerId = Actor
WithinDates(i) ==
    /\ Query.minimumDate # Absent
         => applications[i].createdAt >= Get(Query.minimumDate)
    /\ Query.maximumDate # Absent
         => applications[i].createdAt <= Get(Query.maximumDate)
StatusWanted(i) ==
    Query.status # Absent => applications[i].status \in Get(Query.status)
HasActorTask(i, status) ==
    /\ applications[i].task # Absent
    /\ Get(applications[i].task).status = status
    /\ Get(applications[i].task).assignedToBrokerId = Actor
Unfiltered ==
    /\ Query.minimumDate = Absent /\ Query.maximumDate = Absent
    /\ Query.status = Absent

\* C1: a list by broker A returns only applications whose brokerId is A, and
\* every task attached to a returned application is assigned to A, whatever
\* the query parameters are.
C1_ActorScoping ==
    (Listed /\ Response.http = OK) =>
        \A r \in Response.applications :
            /\ r.id \in DOMAIN applications
            /\ r.brokerId = applications[r.id].brokerId
            /\ r.brokerId = Actor
            /\ r.task # Absent
                 => /\ r.task = applications[r.id].task
                    /\ Get(r.task).assignedToBrokerId = Actor

\* A request with no date, status or completed parameter finds nothing,
\* because the only stored application belongs to another broker
C1_Witness ==
    /\ Listed /\ Response.http = OK
    /\ Unfiltered /\ Query.completed = Absent
    /\ Len(applications) = 1
    /\ applications[1].brokerId # Actor
    /\ Response.applications = {}

\* C2: with completed true an application of the actor without a completed
\* task assigned to the actor is not returned (and every returned one carries
\* such a task); with completed false or omitted an application of the actor
\* that passes the date and status filters is returned even without a pending
\* task assigned to the actor, and then its task is absent.
C2_CompletedJoin ==
    (Listed /\ Response.http = OK) =>
        IF Query.completed = Some(TRUE)
        THEN /\ \A i \in DOMAIN applications :
                    (OwnedByActor(i) /\ ~HasActorTask(i, Completed))
                        => i \notin ReturnedIds
             /\ \A r \in Response.applications :
                    /\ r.task # Absent
                    /\ Get(r.task).status = Completed
        ELSE /\ \A i \in DOMAIN applications :
                    (/\ OwnedByActor(i) /\ WithinDates(i) /\ StatusWanted(i)
                     /\ ~HasActorTask(i, Pending))
                        => \E r \in Response.applications :
                               r.id = i /\ r.task = Absent
             /\ \A r \in Response.applications :
                    r.task # Absent => Get(r.task).status = Pending

\* completed = true leaves out the actor's only application, whose task is
\* still pending
C2_Witness ==
    /\ Listed /\ Response.http = OK
    /\ Unfiltered /\ Query.completed = Some(TRUE)
    /\ Len(applications) = 1
    /\ OwnedByActor(1) /\ HasActorTask(1, Pending)
    /\ Response.applications = {}

\* C3: a list request whose minimumDate is after its maximumDate is answered
\* with 400 Bad Request: findAll is not called and no success response with
\* applications is returned.
C3_InvertedRangeRejected ==
    (/\ Listed
     /\ Query.minimumDate # Absent /\ Query.maximumDate # Absent
     /\ Get(Query.minimumDate) > Get(Query.maximumDate))
        => /\ Response.http = BAD_REQUEST
           /\ ~Response.queried
           /\ ~Response.success
           /\ Response.applications = NoApplications

\* An inverted range over a table holding an application of the actor that
\* a swapped or dropped range would have returned
C3_Witness ==
    /\ Listed
    /\ Query.minimumDate # Absent /\ Query.maximumDate # Absent
    /\ Get(Query.minimumDate) > Get(Query.maximumDate)
    /\ Query.status = Absent /\ Query.completed = Absent
    /\ Len(applications) = 1 /\ OwnedByActor(1)
    /\ Response.http = BAD_REQUEST

\* C4: when a non-empty set of statuses is given every returned application
\* has one of them; when status is omitted every application of the actor that
\* passes the date filter and the task join is returned, whatever its status.
C4_StatusFilter ==
    (Listed /\ Response.http = OK) =>
        /\ (Query.status # Absent /\ Get(Query.status) # {})
             => \A r \in Response.applications :
                    /\ r.status = applications[r.id].status
                    /\ r.status \in Get(Query.status)
        /\ Query.status = Absent
             => \A i \in DOMAIN applications :
                    (/\ OwnedByActor(i) /\ WithinDates(i)
                     /\ Query.completed = Some(TRUE)
                          => HasActorTask(i, Completed))
                        => i \in ReturnedIds

\* A status set that leaves out the status of the actor's only application
C4_Witness ==
    /\ Listed /\ Response.http = OK
    /\ Query.status # Absent /\ Get(Query.status) # {}
    /\ Query.minimumDate = Absent /\ Query.maximumDate = Absent
    /\ Query.completed = Absent
    /\ Len(applications) = 1 /\ OwnedByActor(1)
    /\ applications[1].status \notin Get(Query.status)
    /\ Response.applications = {}

\* ---------------------------------------------- properties of the submit
Done == { s \in Slots : reqs[s].pc = "done" }
Failed == { s \in Slots : reqs[s].pc = "failed" }
Stored == { s \in Slots : reqs[s].created # Absent }
Sent(s) == reqs[s].body.loanAmount
Reply(s) == Get(reqs[s].response)

Above == "Loan amount is above average"
Below == "Loan amount is below average"
AtAverage == "Loan amount is at average"

\* The table as it was when the request of slot s read the average (rows are
\* only ever appended)
TableReadBy(s) == SubSeq(applications, 1, reqs[s].readAt)

\* C5: a successful submit returns one of the three messages: the above one
\* if loanAmount > average, the below one if loanAmount < average, the at one
\* if they are equal.
C5_MessageByComparison ==
    \A s \in Done :
        LET avg == reqs[s].avgLoanAmount
        IN  /\ Reply(s).success
            /\ Reply(s).message \in {Above, Below, AtAverage}
            /\ (avg.defined /\ Sent(s) * avg.count > avg.sum)
                 => Reply(s).message = Above
            /\ (avg.defined /\ Sent(s) * avg.count < avg.sum)
                 => Reply(s).message = Below
            /\ (avg.defined /\ Sent(s) * avg.count = avg.sum)
                 => Reply(s).message = AtAverage

\* A submit below the average of the stored amounts
C5_Witness ==
    \E s \in Done :
        /\ reqs[s].readAt > 0
        /\ Sent(s) * reqs[s].avgLoanAmount.count < reqs[s].avgLoanAmount.sum
        /\ Reply(s).message = Below

\* C6: in a successful response loanAmount is null exactly when the submitted
\* amount equals the average read before the insert, which is exactly when
\* the message is the at-average one; otherwise it is the submitted amount.
C6_EchoAgreesWithMessage ==
    \A s \in Done :
        LET avg == reqs[s].avgLoanAmount
        IN  /\ Reply(s).loanAmount = Absent
                 <=> (avg.defined /\ Sent(s) * avg.count = avg.sum)
            /\ Reply(s).loanAmount = Absent
                 <=> Reply(s).message = AtAverage
            /\ Reply(s).loanAmount # Absent
                 => Reply(s).loanAmount = Some(Sent(s))

\* C7: every record a submit created has status Submitted and the brokerId of
\* the actor who submitted it, whatever the body carried
C7_CreatedRows ==
    /\ \A s \in Stored :
           LET id == Get(reqs[s].created)
           IN  /\ id \in DOMAIN applications
               /\ applications[id].status = Submitted
               /\ applications[id].brokerId = reqs[s].user
               /\ applications[id].loanAmount = Sent(s)
    /\ \A s, t \in Stored : reqs[s].created = reqs[t].created => s = t

\* C7: a step in which a submit succeeds adds exactly one record and leaves
\* the existing ones as they were; no other step changes the table
C7_OneRowPerSubmit ==
    IF \E s \in Slots : reqs[s].pc # "done" /\ reqs'[s].pc = "done"
    THEN /\ Len(applications') = Len(applications) + 1
         /\ SubSeq(applications', 1, Len(applications)) = applications
    ELSE applications' = applications

\* C7: both parts, in every behaviour
C7_SubmittedByActor == [](C7_CreatedRows) /\ [][C7_OneRowPerSubmit]_vars

\* A stored record of a submit by b1 whose body named status Approved and
\* brokerId b2
C7_Witness ==
    \E s \in Stored :
        /\ reqs[s].user = "b1"
        /\ reqs[s].body.status = Some(Approved)
        /\ reqs[s].body.brokerId = Some("b2")
        /\ applications[Get(reqs[s].created)].brokerId = "b1"

\* C8: the average a submit compares against is the average of the table as
\* it stood at its aggregate read, which is before its own insert: its own
\* record is not among the rows averaged.
C8_AverageBeforeOwnInsert ==
    \A s \in Slots :
        reqs[s].pc \in {"awaitCreate", "done"} =>
            /\ reqs[s].readAt <= Len(applications)
            /\ \E ifEmpty \in EmptyAverages :
                   reqs[s].avgLoanAmount
                       = getAverageLoanAmount(TableReadBy(s), ifEmpty)
            /\ reqs[s].created # Absent
                 => Get(reqs[s].created) > reqs[s].readAt

\* Two submits that both read the average of the empty table before either
\* inserted: the second one's average omits the first one's record
C8_Witness ==
    \E s, t \in Done :
        /\ s # t
        /\ reqs[s].readAt = 0 /\ reqs[t].readAt = 0
        /\ Get(reqs[t].created) = 2
        /\ Sent(s) > 0

\* C9: a submit whose aggregate read or insert failed returns no success
\* response and leaves no record; a success response is returned only with
\* the record stored; the table holds one record per successful submit.
C9_NoPartialState ==
    /\ \A s \in Failed :
           /\ reqs[s].response = Absent
           /\ reqs[s].created = Absent
    /\ \A s \in Slots :
           reqs[s].response # Absent
               => /\ reqs[s].pc = "done"
                  /\ reqs[s].created # Absent
                  /\ Get(reqs[s].created) \in DOMAIN applications
    /\ Len(applications) = Cardinality(Done)

\* One submit failed in create() next to one that succeeded
C9_Witness ==
    /\ \E s \in Failed : reqs[s].threwAt = "create"
    /\ Done # {}
    /\ Len(applications) = 1

\* C10: a submit that read the average of an empty table completes like any
\* other: the average is the value chosen for the empty table, the record is
\* stored, the message is one of the three, and loanAmount is null only with
\* the at-average message and is the submitted amount otherwise.
C10_EmptyTable ==
    \A s \in Done :
        reqs[s].readAt = 0 =>
            /\ reqs[s].avgLoanAmount \in EmptyAverages
            /\ reqs[s].created # Absent
            /\ Get(reqs[s].created) \in DOMAIN applications
            /\ Reply(s).success
            /\ Reply(s).message \in {Above, Below, AtAverage}
            /\ Reply(s).loanAmount = Absent
                 => Reply(s).message = AtAverage
            /\ Reply(s).loanAmount # Absent
                 => Reply(s).loanAmount = Some(Sent(s))

\* The first submit ever, with the undefined average
C10_Witness ==
    \E s \in Done :
        /\ reqs[s].readAt = 0
        /\ reqs[s].created = Some(1)
        /\ reqs[s].avgLoanAmount = Undefined
====
